---- MODULE Spec2Model ----
(***************************************************************************)
(* SmallRange<T>: a half-open range [start, end) packed into one unsigned  *)
(* integer of the storage type T (u16, u32, u64 or usize) as               *)
(* ((start+1) << HALF_BITS) | (length+1), held in a NonZero<T>.            *)
(*                                                                         *)
(* An unsigned integer of W bits is modelled as the little-endian sequence *)
(* of its W/8 bytes, so that the 32- and 64-bit storage types keep their   *)
(* exact width and every addition, subtraction, shift and mask of the code *)
(* is computed on the real bit pattern.  HALF_BITS is a whole number of    *)
(* bytes for every storage type, so the two shifts of the code move whole  *)
(* bytes.                                                                  *)
(*                                                                         *)
(* One behaviour is one use of the type under one build: the storage type, *)
(* the platform pointer width (32 or 64 bits, the two the source documents)*)
(* and the two build switches (debug assertions, overflow checks) are      *)
(* fixed by Init; a constructor call binds r; a read operation on r binds   *)
(* q, or r is iterated, once or twice, in `it`.                            *)
(***************************************************************************)
EXTENDS Integers, Sequences, FiniteSets

VARIABLES
    T,                      \* the storage type parameter of SmallRange<T>
    target_pointer_width,   \* bits of usize on the platform
    debug_assertions,       \* cfg(debug_assertions): debug_assert! is compiled in
    overflow_checks,        \* arithmetic overflow panics (TRUE) or wraps (FALSE)
    r,                      \* the constructor call made and what it returned
    q,                      \* the last read operation on r and what it returned
    it                      \* the iteration over r in progress

vars == <<T, target_pointer_width, debug_assertions, overflow_checks, r, q, it>>

\* Input values are taken within Near of 0 and of LOW_MASK, modulo 2^W
\* (so the values just below 2^W are included).
Near == 1

\* An iteration is followed for at most MaxIter items.
MaxIter == 3

----------------------------------------------------------------------------
(* Unsigned integers of the storage type as little-endian byte sequences.  *)

StorageTypes == {"u16", "u32", "u64", "usize"}

\* Bit width of a primitive unsigned type.
BitsOf(t) ==
    CASE t = "u16" -> 16
      [] t = "u32" -> 32
      [] t = "u64" -> 64
      [] t = "usize" -> target_pointer_width

NBytes == BitsOf(T) \div 8

\* The W-bit integer with the small value n (n < 256).
Lit(n, nbytes) == [i \in 1..nbytes |-> IF i = 1 THEN n ELSE 0]

zero == Lit(0, NBytes)
one == Lit(1, NBytes)

RECURSIVE CarryFrom(_, _, _)
\* The carry out of byte i of x + y: 1 when the bytes 1..i of x and y add up
\* to 256^i or more.  A byte sum above 255 carries, one below 255 absorbs a
\* carry, one of 255 passes on the carry of the bytes below.
CarryFrom(x, y, i) ==
    IF i = 0 THEN 0
    ELSE IF x[i] + y[i] > 255 THEN 1
    ELSE IF x[i] + y[i] < 255 THEN 0
    ELSE CarryFrom(x, y, i - 1)

RECURSIVE LtFrom(_, _, _)
\* x < y on the bytes 1..i, decided by the most significant of them in which
\* x and y differ; it is also the borrow out of byte i of x - y.
LtFrom(x, y, i) ==
    IF i = 0 THEN FALSE
    ELSE IF x[i] # y[i] THEN x[i] < y[i]
    ELSE LtFrom(x, y, i - 1)

\* x + y and x - y modulo 2^W, and whether the exact result leaves 0..2^W-1.
AddWrap(x, y) ==
    [i \in 1..Len(x) |-> (x[i] + y[i] + CarryFrom(x, y, i - 1)) % 256]
AddCarry(x, y) == CarryFrom(x, y, Len(x)) = 1
SubWrap(x, y) ==
    [i \in 1..Len(x) |->
        (x[i] - y[i] - (IF LtFrom(x, y, i - 1) THEN 1 ELSE 0)) % 256]
SubBorrow(x, y) == LtFrom(x, y, Len(x))

\* x < y and x <= y on unsigned integers of the same width.
Lt(x, y) == LtFrom(x, y, Len(x))
Le(x, y) == ~LtFrom(y, x, Len(x))

RECURSIVE AndByte(_, _)
AndByte(a, b) ==
    IF a = 0 \/ b = 0 THEN 0
    ELSE IF b = 255 THEN a
    ELSE IF a = 255 THEN b
    ELSE (a % 2) * (b % 2) + 2 * AndByte(a \div 2, b \div 2)

RECURSIVE OrByte(_, _)
OrByte(a, b) ==
    IF a = 0 THEN b
    ELSE IF b = 0 THEN a
    ELSE (IF a % 2 = 1 \/ b % 2 = 1 THEN 1 ELSE 0) + 2 * OrByte(a \div 2, b \div 2)

BitAnd(x, y) == [i \in 1..Len(x) |-> AndByte(x[i], y[i])]
BitOr(x, y) == [i \in 1..Len(x) |-> OrByte(x[i], y[i])]

\* x << n and x >> n for n a whole number of bytes, n < W: bits shifted past
\* either end are dropped, zeros come in.
Shl(x, n) ==
    [i \in 1..Len(x) |-> IF i - (n \div 8) >= 1 THEN x[i - (n \div 8)] ELSE 0]
Shr(x, n) ==
    [i \in 1..Len(x) |-> IF i + (n \div 8) <= Len(x) THEN x[i + (n \div 8)] ELSE 0]

\* `x as U` between unsigned types: truncates or zero-extends to nbytes.
AsBytes(x, nbytes) == [i \in 1..nbytes |-> IF i <= Len(x) THEN x[i] ELSE 0]

----------------------------------------------------------------------------
(* What a call returns: a value, a panic with its message, or undefined    *)
(* behaviour.                                                              *)

Ok(v) == [tag |-> "ok", val |-> v, msg |-> ""]
Panic(m) == [tag |-> "panic", val |-> <<>>, msg |-> m]
Undefined == [tag |-> "ub", val |-> <<>>, msg |-> ""]
None == [tag |-> "none", val |-> <<>>, msg |-> ""]

\* The primitive `+` and `-`: a panic under overflow checks, wrapping otherwise.
add(x, y) ==
    IF overflow_checks /\ AddCarry(x, y)
    THEN Panic("attempt to add with overflow")
    ELSE Ok(AddWrap(x, y))

sub(x, y) ==
    IF overflow_checks /\ SubBorrow(x, y)
    THEN Panic("attempt to subtract with overflow")
    ELSE Ok(SubWrap(x, y))

----------------------------------------------------------------------------
(* SmallRangeStorage                                                       *)

\* The constants of the implementation for storage type t on a platform whose
\* usize has pw bits (size_of::<usize>() is pw / 8).
HALF_BITS_of(t, pw) ==
    CASE t = "u16" -> 8
      [] t = "u32" -> 16
      [] t = "u64" -> 32
      [] t = "usize" -> ((pw \div 8) * 8) \div 2

\* LOW_MASK_of with the usize mask computed as 1 << HALF_BITS, the
\* subtraction of one left out.
LOW_MASK_of_unreduced(t, pw) ==
    CASE t = "u16" -> <<255, 0>>
      [] t = "u32" -> <<255, 255, 0, 0>>
      [] t = "u64" -> <<255, 255, 255, 255, 0, 0, 0, 0>>
      [] t = "usize" -> Shl(Lit(1, pw \div 8), HALF_BITS_of(t, pw))

LOW_MASK_of(t, pw) ==
    CASE t = "u16" -> <<255, 0>>
      [] t = "u32" -> <<255, 255, 0, 0>>
      [] t = "u64" -> <<255, 255, 255, 255, 0, 0, 0, 0>>
      [] t = "usize" ->
           SubWrap(Shl(Lit(1, pw \div 8), HALF_BITS_of(t, pw)),
                   Lit(1, pw \div 8))

HALF_BITS == HALF_BITS_of(T, target_pointer_width)

LOW_MASK == LOW_MASK_of(T, target_pointer_width)

\* NonZero::new_unchecked: undefined behaviour on zero.
new_nonzero_unchecked(val) == IF val = zero THEN Undefined ELSE Ok(val)

get_nonzero(nz) == nz

----------------------------------------------------------------------------
(* SmallRange<T>.  A value is its stored integer `bits`.                   *)

\* encode packing hi and lo without the shift of hi.
encode_unshifted(s, e) ==
    IF debug_assertions /\ ~Le(s, e) THEN Panic("start must not exceed end")
    ELSE
    LET length == sub(e, s) IN
    IF length.tag = "panic" THEN length ELSE
    LET hi == add(s, one) IN
    IF hi.tag = "panic" THEN hi ELSE
    LET lo == add(length.val, one) IN
    IF lo.tag = "panic" THEN lo ELSE
    IF debug_assertions /\ ~Le(hi.val, LOW_MASK)
    THEN Panic("start+1 exceeds half-width capacity")
    ELSE
    IF debug_assertions /\ ~Le(lo.val, LOW_MASK)
    THEN Panic("length+1 exceeds half-width capacity")
    ELSE new_nonzero_unchecked(BitOr(hi.val, lo.val))

\* encode packing the length without its bias of one.
encode_unbiased_length(s, e) ==
    IF debug_assertions /\ ~Le(s, e) THEN Panic("start must not exceed end")
    ELSE
    LET length == sub(e, s) IN
    IF length.tag = "panic" THEN length ELSE
    LET hi == add(s, one) IN
    IF hi.tag = "panic" THEN hi ELSE
    IF debug_assertions /\ ~Le(hi.val, LOW_MASK)
    THEN Panic("start+1 exceeds half-width capacity")
    ELSE
    IF debug_assertions /\ ~Le(length.val, LOW_MASK)
    THEN Panic("length+1 exceeds half-width capacity")
    ELSE Ok(BitOr(Shl(hi.val, HALF_BITS), length.val))

encode(s, e) ==
    IF debug_assertions /\ ~Le(s, e) THEN Panic("start must not exceed end")
    ELSE
    LET length == sub(e, s) IN
    IF length.tag = "panic" THEN length ELSE
    LET hi == add(s, one) IN
    IF hi.tag = "panic" THEN hi ELSE
    LET lo == add(length.val, one) IN
    IF lo.tag = "panic" THEN lo ELSE
    IF debug_assertions /\ ~Le(hi.val, LOW_MASK)
    THEN Panic("start+1 exceeds half-width capacity")
    ELSE
    IF debug_assertions /\ ~Le(lo.val, LOW_MASK)
    THEN Panic("length+1 exceeds half-width capacity")
    ELSE new_nonzero_unchecked(BitOr(Shl(hi.val, HALF_BITS), lo.val))

\* decode_start_length with the mask of the low half left out.
decode_start_length_unmasked(bits) ==
    LET packed == get_nonzero(bits)
        hi == Shr(packed, HALF_BITS)
        lo == packed
        st == sub(hi, one)
    IN  IF st.tag = "panic" THEN st ELSE
        LET length == sub(lo, one) IN
        IF length.tag = "panic" THEN length ELSE
        Ok(<<st.val, length.val>>)

\* Ok(<<start, length>>), or the panic of an underflowing subtraction.
decode_start_length(bits) ==
    LET packed == get_nonzero(bits)
        hi == Shr(packed, HALF_BITS)
        lo == BitAnd(packed, LOW_MASK)
        st == sub(hi, one)
    IN  IF st.tag = "panic" THEN st ELSE
        LET length == sub(lo, one) IN
        IF length.tag = "panic" THEN length ELSE
        Ok(<<st.val, length.val>>)

new(s, e) == encode(s, e)

start(bits) ==
    LET d == decode_start_length(bits)
    IN  IF d.tag = "panic" THEN d ELSE Ok(d.val[1])

end(bits) ==
    LET d == decode_start_length(bits)
    IN  IF d.tag = "panic" THEN d ELSE add(d.val[1], d.val[2])

\* The result is a usize.
len(bits) ==
    LET packed == get_nonzero(bits)
        lo == BitAnd(packed, LOW_MASK)
        l == sub(lo, one)
    IN  IF l.tag = "panic" THEN l
        ELSE Ok(AsBytes(l.val, target_pointer_width \div 8))

\* is_empty comparing the biased low field with 0 instead of 1.
is_empty_unbiased(bits) ==
    LET packed == get_nonzero(bits)
        lo == BitAnd(packed, LOW_MASK)
    IN  Ok(lo = zero)

is_empty(bits) ==
    LET packed == get_nonzero(bits)
        lo == BitAnd(packed, LOW_MASK)
    IN  Ok(lo = one)

\* to_range giving start..length instead of start..start+length.
to_range_length(bits) ==
    LET d == decode_start_length(bits)
    IN  IF d.tag = "panic" THEN d ELSE Ok(<<d.val[1], d.val[2]>>)

\* Range<T> as the pair <<start, end>>.
to_range(bits) ==
    LET d == decode_start_length(bits)
    IN  IF d.tag = "panic" THEN d ELSE
        LET e == add(d.val[1], d.val[2]) IN
        IF e.tag = "panic" THEN e ELSE Ok(<<d.val[1], e.val>>)

\* try_new packing the length without its bias of one.
try_new_unbiased_length(s, e) ==
    IF Lt(e, s) THEN None ELSE
    LET length == sub(e, s) IN
    IF length.tag = "panic" THEN length ELSE
    LET hi == add(s, one) IN
    IF hi.tag = "panic" THEN hi ELSE
    LET lo == add(length.val, one) IN
    IF lo.tag = "panic" THEN lo ELSE
    IF Lt(LOW_MASK, hi.val) \/ Lt(LOW_MASK, lo.val) THEN None
    ELSE Ok(BitOr(Shl(hi.val, HALF_BITS), length.val))

\* None, Some(bits) as Ok(bits), or what the arithmetic before the capacity
\* test does on overflow.
try_new(s, e) ==
    IF Lt(e, s) THEN None ELSE
    LET length == sub(e, s) IN
    IF length.tag = "panic" THEN length ELSE
    LET hi == add(s, one) IN
    IF hi.tag = "panic" THEN hi ELSE
    LET lo == add(length.val, one) IN
    IF lo.tag = "panic" THEN lo ELSE
    IF Lt(LOW_MASK, hi.val) \/ Lt(LOW_MASK, lo.val) THEN None
    ELSE new_nonzero_unchecked(BitOr(Shl(hi.val, HALF_BITS), lo.val))

\* contains with the end bound included.
contains_end_inclusive(bits, value) ==
    LET st == start(bits) IN
    IF st.tag = "panic" THEN st ELSE
    IF ~Le(st.val, value) THEN Ok(FALSE) ELSE
    LET en == end(bits) IN
    IF en.tag = "panic" THEN en ELSE Ok(Le(value, en.val))

\* contains with the start bound excluded.
contains_start_exclusive(bits, value) ==
    LET st == start(bits) IN
    IF st.tag = "panic" THEN st ELSE
    IF ~Lt(st.val, value) THEN Ok(FALSE) ELSE
    LET en == end(bits) IN
    IF en.tag = "panic" THEN en ELSE Ok(Lt(value, en.val))

contains(bits, value) ==
    LET st == start(bits) IN
    IF st.tag = "panic" THEN st ELSE
    IF ~Le(st.val, value) THEN Ok(FALSE) ELSE
    LET en == end(bits) IN
    IF en.tag = "panic" THEN en ELSE Ok(Lt(value, en.val))

\* overlaps with self.start() <= other.end() for the first comparison.
overlaps_touching(self, other) ==
    IF is_empty(self).val THEN Ok(FALSE) ELSE
    IF is_empty(other).val THEN Ok(FALSE) ELSE
    LET s1 == start(self) IN
    IF s1.tag = "panic" THEN s1 ELSE
    LET e2 == end(other) IN
    IF e2.tag = "panic" THEN e2 ELSE
    IF ~Le(s1.val, e2.val) THEN Ok(FALSE) ELSE
    LET s2 == start(other) IN
    IF s2.tag = "panic" THEN s2 ELSE
    LET e1 == end(self) IN
    IF e1.tag = "panic" THEN e1 ELSE Ok(Lt(s2.val, e1.val))

\* overlaps without the two emptiness tests.
overlaps_unguarded(self, other) ==
    LET s1 == start(self) IN
    IF s1.tag = "panic" THEN s1 ELSE
    LET e2 == end(other) IN
    IF e2.tag = "panic" THEN e2 ELSE
    IF ~Lt(s1.val, e2.val) THEN Ok(FALSE) ELSE
    LET s2 == start(other) IN
    IF s2.tag = "panic" THEN s2 ELSE
    LET e1 == end(self) IN
    IF e1.tag = "panic" THEN e1 ELSE Ok(Lt(s2.val, e1.val))

\* overlaps with other.start() <= self.end() for the second comparison.
overlaps_adjacent(self, other) ==
    IF is_empty(self).val THEN Ok(FALSE) ELSE
    IF is_empty(other).val THEN Ok(FALSE) ELSE
    LET s1 == start(self) IN
    IF s1.tag = "panic" THEN s1 ELSE
    LET e2 == end(other) IN
    IF e2.tag = "panic" THEN e2 ELSE
    IF ~Lt(s1.val, e2.val) THEN Ok(FALSE) ELSE
    LET s2 == start(other) IN
    IF s2.tag = "panic" THEN s2 ELSE
    LET e1 == end(self) IN
    IF e1.tag = "panic" THEN e1 ELSE Ok(Le(s2.val, e1.val))

overlaps(self, other) ==
    IF is_empty(self).val THEN Ok(FALSE) ELSE
    IF is_empty(other).val THEN Ok(FALSE) ELSE
    LET s1 == start(self) IN
    IF s1.tag = "panic" THEN s1 ELSE
    LET e2 == end(other) IN
    IF e2.tag = "panic" THEN e2 ELSE
    IF ~Lt(s1.val, e2.val) THEN Ok(FALSE) ELSE
    LET s2 == start(other) IN
    IF s2.tag = "panic" THEN s2 ELSE
    LET e1 == end(self) IN
    IF e1.tag = "panic" THEN e1 ELSE Ok(Lt(s2.val, e1.val))

\* default building the one-element range 0..1.
default_unit == new(zero, one)

default == new(zero, zero)

\* derive(PartialEq, Eq): the stored integers are compared.
eq(self, other) == Ok(get_nonzero(self) = get_nonzero(other))

\* derive(Hash): the bytes of the stored integer are what the hasher is fed.
hash(bits) == Ok(get_nonzero(bits))

\* derive(Clone, Copy): a copy of the stored integer.
clone(bits) == Ok(bits)

\* into_iter iterating the indices 0..len instead of the values.
into_iter_indices(bits) ==
    LET d == decode_start_length(bits)
    IN  IF d.tag = "panic" THEN d ELSE Ok(<<zero, d.val[2]>>)

\* IntoIter for SmallRange<T> (by value): the Range<T> <<start, end>>.
into_iter(bits) == to_range(bits)

\* IntoIter for &SmallRange<T> (by reference).
into_iter_ref(bits) == to_range(bits)

\* Iterator::next of Range<T>: the item (Some as Ok, or None) and the range
\* left.
range_next(rg) ==
    IF Lt(rg[1], rg[2])
    THEN [item |-> Ok(rg[1]), range |-> <<AddWrap(rg[1], one), rg[2]>>]
    ELSE [item |-> None, range |-> rg]

----------------------------------------------------------------------------
(* The state machine.                                                      *)

\* The values of T used as start, as length and as probe: within Near of 0
\* and of LOW_MASK, modulo 2^W.
Sample ==
    UNION {{AddWrap(a, Lit(k, NBytes)), SubWrap(a, Lit(k, NBytes))} :
             a \in {zero, LOW_MASK}, k \in 0..Near}

\* The values used as end with start s: a sample value, or s plus a sample
\* length (modulo 2^W).
Ends(s) == LET S == Sample IN S \cup {AddWrap(s, l) : l \in S}

NoCall == [by |-> "none", s |-> <<>>, e |-> <<>>, res |-> None]
NoQuery == [op |-> "none", arg |-> <<>>, res |-> None]

\* An iteration: how the iterator was made (by value or by reference), the
\* Range<T> left in it, the items yielded so far, whether next returned None,
\* and for a second iteration of the same value the first one's way and items.
NoIter ==
    [by |-> "none", res |-> None, out |-> <<>>, done |-> FALSE,
     pass |-> 0, first_by |-> "none", first |-> <<>>]

\* What a build can make of a call: the call's result, and for undefined
\* behaviour either a value holding the forbidden zero or an abort.
Outcomes(res) ==
    IF res.tag = "ub" THEN {Ok(zero), Undefined} ELSE {res}

Init ==
    /\ T \in StorageTypes
    /\ target_pointer_width \in {32, 64}
    /\ debug_assertions \in BOOLEAN
    /\ overflow_checks \in BOOLEAN
    /\ r = NoCall
    /\ q = NoQuery
    /\ it = NoIter

Build == <<T, target_pointer_width, debug_assertions, overflow_checks>>

Construct(by, s, e, res) ==
    /\ \E o \in Outcomes(res) : r' = [by |-> by, s |-> s, e |-> e, res |-> o]
    /\ UNCHANGED <<Build, q, it>>

New ==
    /\ r = NoCall
    /\ \E s \in Sample : \E e \in Ends(s) : Construct("new", s, e, new(s, e))

TryNew ==
    /\ r = NoCall
    /\ \E s \in Sample : \E e \in Ends(s) :
           Construct("try_new", s, e, try_new(s, e))

Default ==
    /\ r = NoCall
    /\ Construct("default", zero, zero, default)

\* r holds a SmallRange (returned by new or default, or inside Some).
HasValue == r.res.tag = "ok"

Read(op, arg, res) ==
    /\ HasValue
    /\ q = NoQuery
    /\ it = NoIter
    /\ q' = [op |-> op, arg |-> arg, res |-> res]
    /\ UNCHANGED <<Build, r, it>>

Start == Read("start", <<>>, start(r.res.val))

End == Read("end", <<>>, end(r.res.val))

LenCall == Read("len", <<>>, len(r.res.val))

IsEmpty == Read("is_empty", <<>>, is_empty(r.res.val))

ToRange == Read("to_range", <<>>, to_range(r.res.val))

Contains ==
    /\ HasValue
    /\ q = NoQuery
    /\ it = NoIter
    /\ \E v \in Ends(r.s) : Read("contains", v, contains(r.res.val, v))

\* other is a second range, built by try_new.
Overlaps ==
    /\ HasValue
    /\ q = NoQuery
    /\ it = NoIter
    /\ \E s \in Sample : \E e \in Ends(s) :
        LET o == try_new(s, e)
        IN  /\ o.tag = "ok"
            /\ Read("overlaps", [s |-> s, e |-> e, bits |-> o.val],
                    overlaps(r.res.val, o.val))

\* other is a second range, built by new from input in its domain.
EqCall ==
    /\ HasValue
    /\ q = NoQuery
    /\ it = NoIter
    /\ \E s \in Sample : \E e \in Ends(s) :
        /\ Le(s, e) /\ Le(s, SubWrap(LOW_MASK, one))
        /\ Le(SubWrap(e, s), SubWrap(LOW_MASK, one))
        /\ LET o == new(s, e)
           IN  /\ o.tag = "ok"
               /\ Read("eq", [s |-> s, e |-> e, bits |-> o.val],
                       eq(r.res.val, o.val))

HashCall == Read("hash", <<>>, hash(r.res.val))

CloneCall == Read("clone", <<>>, clone(r.res.val))

\* into_iter moving the value out of r when called by value (SmallRange not
\* Copy).
IntoIter_moving(by) ==
    /\ HasValue
    /\ q = NoQuery
    /\ it = NoIter \/ (it.done /\ it.pass = 1)
    /\ it' = [by |-> by,
              res |-> IF by = "value" THEN into_iter(r.res.val)
                      ELSE into_iter_ref(r.res.val),
              out |-> <<>>, done |-> FALSE, pass |-> it.pass + 1,
              first_by |-> it.by, first |-> it.out]
    /\ r' = IF by = "value" THEN NoCall ELSE r
    /\ UNCHANGED <<Build, q>>

\* r.into_iter() or (&r).into_iter(): a first iteration, or a second one
\* once the first has ended.  r is Copy: it stays.
IntoIter(by) ==
    /\ HasValue
    /\ q = NoQuery
    /\ it = NoIter \/ (it.done /\ it.pass = 1)
    /\ it' = [by |-> by,
              res |-> IF by = "value" THEN into_iter(r.res.val)
                      ELSE into_iter_ref(r.res.val),
              out |-> <<>>, done |-> FALSE, pass |-> it.pass + 1,
              first_by |-> it.by, first |-> it.out]
    /\ UNCHANGED <<Build, r, q>>

IntoIterValue == IntoIter("value")

IntoIterRef == IntoIter("ref")

\* One call of next on the iterator: an item, or None and the iteration ends.
IterNext ==
    /\ it.by # "none"
    /\ it.res.tag = "ok"
    /\ ~it.done
    /\ LET n == range_next(it.res.val)
       IN  IF n.item.tag = "none"
           THEN it' = [it EXCEPT !.done = TRUE]
           ELSE /\ Len(it.out) < MaxIter
                /\ it' = [it EXCEPT !.res = Ok(n.range),
                                    !.out = Append(@, n.item.val)]
    /\ UNCHANGED <<Build, r, q>>

Next ==
    \/ New
    \/ TryNew
    \/ Default
    \/ Start
    \/ End
    \/ LenCall
    \/ IsEmpty
    \/ ToRange
    \/ Contains
    \/ Overlaps
    \/ EqCall
    \/ HashCall
    \/ CloneCall
    \/ IntoIterValue
    \/ IntoIterRef
    \/ IterNext

Spec == Init /\ [][Next]_vars

----------------------------------------------------------------------------
(* Properties.                                                             *)

\* LOW_MASK - 1, the largest start and the largest length the type holds.
Cap == SubWrap(LOW_MASK, one)

\* The domain of new and try_new: start <= end, start <= LOW_MASK - 1 and
\* end - start <= LOW_MASK - 1.
Valid(s, e) == Le(s, e) /\ Le(s, Cap) /\ Le(SubWrap(e, s), Cap)

\* The same number in two unsigned types (T and usize).
SameNumber(x, y) == AsBytes(x, 8) = AsBytes(y, 8)

\* The upper and the lower W/2 bits of a stored integer, as W/2-bit integers.
UpperHalf(bits) == SubSeq(bits, (NBytes \div 2) + 1, NBytes)
LowerHalf(bits) == SubSeq(bits, 1, NBytes \div 2)
HalfZero == Lit(0, NBytes \div 2)

\* r is a range built from input in the domain.
Constructed == HasValue /\ Valid(r.s, r.e)

\* The constructor call has returned and r has not been read or iterated yet.
Fresh == r # NoCall /\ q = NoQuery /\ it = NoIter

C2_NeverZero ==
    (HasValue /\ (r.by = "new" => Valid(r.s, r.e))) =>
        /\ UpperHalf(r.res.val) # HalfZero
        /\ LowerHalf(r.res.val) # HalfZero
        /\ r.res.val # zero

\* C3: try_new returns None when start > end, start > LOW_MASK - 1 or
\* end - start > LOW_MASK - 1, and otherwise Some(r) with r.start() = start and
\* r.end() = end.
C3_TryNewDomain ==
    r.by = "try_new" =>
        IF Valid(r.s, r.e)
        THEN /\ r.res.tag = "ok"
             /\ (q.op = "start" => q.res = Ok(r.s))
             /\ (q.op = "end" => q.res = Ok(r.e))
        ELSE r.res = None

\* C4: try_new ends with Some or None on every pair of the storage type and
\* never panics, under checked and under wrapping arithmetic.
C4_TryNewNeverPanics ==
    r.by = "try_new" => r.res.tag \in {"ok", "none"}

\* The assertion messages of the preconditions that (s, e) violates.
ViolatedMessages(s, e) ==
    (IF Lt(e, s) THEN {"start must not exceed end"} ELSE {})
    \cup (IF Lt(Cap, s) THEN {"start+1 exceeds half-width capacity"} ELSE {})
    \cup (IF Le(s, e) /\ Lt(Cap, SubWrap(e, s))
          THEN {"length+1 exceeds half-width capacity"} ELSE {})

\* C5: with assertions enabled, new on invalid input fails with the assertion
\* message of a violated precondition, with no other failure and no value.
C5_NewAssertionMessages ==
    (r.by = "new" /\ debug_assertions /\ ~Valid(r.s, r.e)) =>
        /\ r.res.tag = "panic"
        /\ r.res.msg \in ViolatedMessages(r.s, r.e)

\* C6: layout: for valid (start, length) the stored integer of new and of a
\* present try_new has start+1 in its upper W/2 bits and length+1 in its lower
\* W/2 bits, no bit lost or shared; it is ((start+1) << HALF_BITS) | (length+1).
\* The stored integer is examined as the constructor returned it.
C6_BitLayout ==
    (r.by \in {"new", "try_new"} /\ Fresh /\ Valid(r.s, r.e)) =>
        /\ r.res.tag = "ok"
        /\ AsBytes(UpperHalf(r.res.val), NBytes) = AddWrap(r.s, one)
        /\ AsBytes(LowerHalf(r.res.val), NBytes) = AddWrap(SubWrap(r.e, r.s), one)
        /\ r.res.val = BitOr(Shl(AddWrap(r.s, one), HALF_BITS),
                             AddWrap(SubWrap(r.e, r.s), one))

\* Both fields at their largest: every bit of both halves but the lowest set.
C6_Witness ==
    /\ r.by = "try_new"
    /\ r.res.tag = "ok"
    /\ r.s = Cap
    /\ SubWrap(r.e, r.s) = Cap
    /\ r.res.val = BitOr(Shl(LOW_MASK, HALF_BITS), LOW_MASK)

\* C7: contains is the half-open interval: r.contains(v) iff
\* r.start() <= v < r.end(); an empty range contains no value.
C7_ContainsHalfOpen ==
    (q.op = "contains" /\ Constructed) =>
        /\ q.res = Ok(Le(r.s, q.arg) /\ Lt(q.arg, r.e))
        /\ q.res = Ok(Le(start(r.res.val).val, q.arg)
                      /\ Lt(q.arg, end(r.res.val).val))
        /\ (r.s = r.e => q.res = Ok(FALSE))

\* An empty range asked for its own start.
C7_Witness ==
    /\ Constructed
    /\ r.s = r.e
    /\ r.s # zero
    /\ q.op = "contains"
    /\ q.arg = r.s
    /\ q.res = Ok(FALSE)

\* C8 as claimed: for every range r, r.contains(r.start()) is true and
\* r.contains(r.end()) is false.
C8_ContainsBoundaries ==
    (q.op = "contains" /\ Constructed) =>
        /\ (q.arg = start(r.res.val).val => q.res = Ok(TRUE))
        /\ (q.arg = end(r.res.val).val => q.res = Ok(FALSE))

\* C8 amended: for every non-empty range r, r.contains(r.start()) is true; for
\* every range r, r.contains(r.end()) is false.
C8_ContainsBoundariesNonEmpty ==
    (q.op = "contains" /\ Constructed) =>
        /\ (q.arg = start(r.res.val).val /\ ~is_empty(r.res.val).val
               => q.res = Ok(TRUE))
        /\ (q.arg = end(r.res.val).val => q.res = Ok(FALSE))

\* A non-empty range asked for its start.
C8_Witness ==
    /\ Constructed
    /\ r.s # r.e
    /\ q.op = "contains"
    /\ q.arg = r.s
    /\ q.res = Ok(TRUE)

\* The second range of an overlaps call was built from input in the domain.
ConstructedOther == Valid(q.arg.s, q.arg.e)

\* C9: overlaps is symmetric: a.overlaps(b) = b.overlaps(a).
C9_OverlapsSymmetric ==
    (q.op = "overlaps" /\ Constructed /\ ConstructedOther) =>
        q.res = overlaps(q.arg.bits, r.res.val)

\* Two different ranges that overlap.
C9_Witness ==
    /\ Constructed
    /\ q.op = "overlaps"
    /\ ConstructedOther
    /\ q.arg.bits # r.res.val
    /\ q.res = Ok(TRUE)

\* C10: an empty range e overlaps no range x, x = e included: e.overlaps(x)
\* and x.overlaps(e) are both false.
C10_EmptyNeverOverlaps ==
    (q.op = "overlaps" /\ Constructed /\ ConstructedOther) =>
        /\ (r.s = r.e =>
               /\ is_empty(r.res.val) = Ok(TRUE)
               /\ q.res = Ok(FALSE)
               /\ overlaps(q.arg.bits, r.res.val) = Ok(FALSE))
        /\ (q.arg.s = q.arg.e =>
               /\ is_empty(q.arg.bits) = Ok(TRUE)
               /\ q.res = Ok(FALSE)
               /\ overlaps(q.arg.bits, r.res.val) = Ok(FALSE))

\* An empty range strictly inside the other: x.start() < e.start() < x.end().
C10_Witness ==
    /\ Constructed
    /\ q.op = "overlaps"
    /\ ConstructedOther
    /\ r.s = r.e
    /\ Lt(q.arg.s, r.s)
    /\ Lt(r.s, q.arg.e)
    /\ q.res = Ok(FALSE)

\* Both ranges of an overlaps call contain v.
BothContain(v) ==
    contains(r.res.val, v) = Ok(TRUE) /\ contains(q.arg.bits, v) = Ok(TRUE)

\* C11: a.overlaps(b) iff some value v has a.contains(v) and b.contains(v);
\* adjacent ranges (a.end() = b.start()) do not overlap.  Two intervals that
\* share a value share the larger of their starts, so that value is looked for
\* among the two starts; that no value is shared is checked on every probe.
C11_OverlapsSharedValue ==
    (q.op = "overlaps" /\ Constructed /\ ConstructedOther) =>
        /\ q.res.tag = "ok"
        /\ (q.res.val => \E v \in {r.s, q.arg.s} : BothContain(v))
        /\ (~q.res.val =>
               \A v \in Sample \cup {r.s, q.arg.s} : ~BothContain(v))
        /\ (r.e = q.arg.s \/ q.arg.e = r.s => ~q.res.val)

\* Two ranges sharing exactly one value: the last value of r is the start of
\* the other range.
C11_Witness ==
    /\ Constructed
    /\ q.op = "overlaps"
    /\ ConstructedOther
    /\ Le(r.s, q.arg.s)
    /\ r.e = AddWrap(q.arg.s, one)
    /\ Lt(r.e, q.arg.e)
    /\ q.res = Ok(TRUE)

\* C12: r.is_empty() = (r.len() = 0), and both are true exactly when the range
\* was built with start = end.
C12_EmptyIffLenZero ==
    (q.op \in {"is_empty", "len"} /\ Constructed) =>
        /\ (q.op = "is_empty" =>
               /\ q.res = Ok(r.s = r.e)
               /\ q.res = Ok(len(r.res.val) = Ok(Lit(0, target_pointer_width \div 8))))
        /\ (q.op = "len" =>
               /\ q.res.tag = "ok"
               /\ (q.res.val = Lit(0, target_pointer_width \div 8)) = (r.s = r.e)
               /\ is_empty(r.res.val) = Ok(r.s = r.e))

\* An empty range away from zero, asked whether it is empty.
C12_Witness ==
    /\ Constructed
    /\ r.s = r.e
    /\ r.s = Cap
    /\ q.op = "is_empty"
    /\ q.res = Ok(TRUE)

\* C13: iterating r yields start(), start()+1, ..., end()-1 in ascending
\* order, each once, len() values in total, nothing for an empty range, and
\* ends: after k items the iterator stands at start+k <= end, so next returns
\* None after len() items.
C13_IterationYieldsInterval ==
    (it.by # "none" /\ Constructed) =>
        /\ it.res.tag = "ok"
        /\ \A i \in 1..Len(it.out) : it.out[i] = AddWrap(r.s, Lit(i - 1, NBytes))
        /\ it.res.val = <<AddWrap(r.s, Lit(Len(it.out), NBytes)), r.e>>
        /\ Le(r.s, it.res.val[1]) /\ Le(it.res.val[1], r.e)
        /\ (r.s = r.e => it.out = <<>>)
        /\ (it.done =>
               /\ it.res.val[1] = r.e
               /\ len(r.res.val) = Ok(Lit(Len(it.out), target_pointer_width \div 8)))

\* A non-empty range away from zero iterated to its end.
C13_Witness ==
    /\ Constructed
    /\ it.done
    /\ it.pass = 1
    /\ r.s = Cap
    /\ it.out = <<r.s>>

\* The items of x are the first items of y.
IsPrefix(x, y) == Len(x) <= Len(y) /\ SubSeq(y, 1, Len(x)) = x

\* C14: reads leave the value unchanged: no read operation and no iteration,
\* by value or by reference, changes the stored integer; a second iteration of
\* the same value yields the same sequence as the first, whichever way
\* (by value, by reference) each was started.
C14_ReadsLeaveValue ==
    [][/\ (r # NoCall => r' = r)
       /\ (it'.pass = 2 => IsPrefix(it'.out, it'.first))
       /\ (it'.pass = 2 /\ it'.done => it'.out = it'.first)]_vars

\* A value iterated by value and then again by reference, to the end.
C14_Witness ==
    /\ Constructed
    /\ it.pass = 2
    /\ it.done
    /\ it.first_by = "value"
    /\ it.by = "ref"
    /\ Len(it.out) >= 1
    /\ it.out = it.first

\* C15: equality is structural and the encoding injective: for valid pairs,
\* new(s1, e1) = new(s2, e2) iff s1 = s2 and e1 = e2; equal values have equal
\* hashes; a copy or clone equals the original.
C15_EqualityStructural ==
    (q.op \in {"eq", "clone", "hash"} /\ Constructed) =>
        /\ (q.op = "eq" =>
               /\ q.res = Ok(r.s = q.arg.s /\ r.e = q.arg.e)
               /\ (q.res.val => hash(r.res.val) = hash(q.arg.bits)))
        /\ (q.op = "clone" =>
               /\ q.res.tag = "ok"
               /\ eq(r.res.val, q.res.val) = Ok(TRUE)
               /\ eq(q.res.val, r.res.val) = Ok(TRUE))
        /\ (q.op = "hash" => q.res = hash(clone(r.res.val).val))

\* Two ranges with start and length exchanged compare unequal.
C15_Witness ==
    /\ Constructed
    /\ r.by = "new"
    /\ q.op = "eq"
    /\ r.s # q.arg.s
    /\ SubWrap(r.e, r.s) = q.arg.s
    /\ SubWrap(q.arg.e, q.arg.s) = r.s
    /\ q.res = Ok(FALSE)

\* C16: the default value is the empty range at zero, built without failure
\* under every build: it equals new(0, 0), start() = 0, end() = 0, len() = 0 and
\* is_empty() is true.
C16_DefaultIsEmptyAtZero ==
    r.by = "default" =>
        /\ r.res.tag = "ok"
        /\ UpperHalf(r.res.val) = Lit(1, NBytes \div 2)
        /\ LowerHalf(r.res.val) = Lit(1, NBytes \div 2)
        /\ (q.op = "start" => q.res = Ok(zero))
        /\ (q.op = "end" => q.res = Ok(zero))
        /\ (q.op = "len" => q.res = Ok(Lit(0, target_pointer_width \div 8)))
        /\ (q.op = "is_empty" => q.res = Ok(TRUE))
        /\ (q.op = "eq" => q.res = Ok(q.arg.s = zero /\ q.arg.e = zero))

\* The default value compared with new(0, 0).
C16_Witness ==
    /\ r.by = "default"
    /\ q.op = "eq"
    /\ q.arg.s = zero
    /\ q.arg.e = zero
    /\ q.res = Ok(TRUE)

\* C17: one source of truth: r.end() = r.start() + r.len(), and r.to_range() is
\* the pair (r.start(), r.end()), which for r = new(start, end) is (start, end).
C17_DerivedAttributes ==
    (q.op \in {"end", "to_range"} /\ Constructed) =>
        /\ (q.op = "end" =>
               /\ q.res.tag = "ok"
               /\ AsBytes(q.res.val, 8) =
                      AddWrap(AsBytes(start(r.res.val).val, 8),
                              AsBytes(len(r.res.val).val, 8)))
        /\ (q.op = "to_range" =>
               /\ q.res = Ok(<<r.s, r.e>>)
               /\ q.res = Ok(<<start(r.res.val).val, end(r.res.val).val>>))

\* A non-empty range away from zero converted to a Range<T>.
C17_Witness ==
    /\ Constructed
    /\ r.by = "new"
    /\ r.s = Cap
    /\ r.e = LOW_MASK
    /\ q.op = "to_range"
    /\ q.res = Ok(<<r.s, r.e>>)

\* C19: the unchecked non-zero wrap of the direct constructor is always given
\* a non-zero integer, on every input on which encode reaches it, invalid
\* input without assertions and with wrapping arithmetic included.
C19_UncheckedWrapNonZero ==
    r.by \in {"new", "default"} =>
        /\ r.res.tag # "ub"
        /\ (r.res.tag = "ok" => r.res.val # zero)

PointerWidths == {16, 32, 64}

\* Bit width of storage type t on a platform of pointer width pw.
Width(t, pw) == IF t = "usize" THEN pw ELSE BitsOf(t)

\* 2^h - 1 as an integer of nbytes bytes, for h a whole number of bytes.
Pow2Minus1(h, nbytes) == [i \in 1..nbytes |-> IF 8 * i <= h THEN 255 ELSE 0]

\* The fixed-width storage type of pw bits.
FixedOfWidth(pw) == CHOOSE t \in StorageTypes \ {"usize"} : BitsOf(t) = pw

\* The constants of every storage type on every pointer width: half the
\* width, the mask of the low half, the two halves disjoint and covering the
\* width, the listed values, usize as the fixed-width type of its size.
StorageConstantsTable ==
    /\ \A t \in StorageTypes, pw \in PointerWidths :
         LET h == HALF_BITS_of(t, pw)
             m == LOW_MASK_of(t, pw)
             n == Width(t, pw) \div 8
         IN  /\ 2 * h = Width(t, pw)
             /\ h % 8 = 0
             /\ Len(m) = n
             /\ m = Pow2Minus1(h, n)
             /\ AddWrap(m, Lit(1, n)) = Shl(Lit(1, n), h)
             /\ BitAnd(m, Shl(m, h)) = Lit(0, n)
             /\ BitOr(m, Shl(m, h)) = SubWrap(Lit(0, n), Lit(1, n))
    /\ \A pw \in PointerWidths :
         /\ HALF_BITS_of("u16", pw) = 8
         /\ LOW_MASK_of("u16", pw) = <<255, 0>>
         /\ HALF_BITS_of("u32", pw) = 16
         /\ LOW_MASK_of("u32", pw) = <<255, 255, 0, 0>>
         /\ HALF_BITS_of("u64", pw) = 32
         /\ LOW_MASK_of("u64", pw) = <<255, 255, 255, 255, 0, 0, 0, 0>>
         /\ HALF_BITS_of("usize", pw) = HALF_BITS_of(FixedOfWidth(pw), pw)
         /\ LOW_MASK_of("usize", pw) = LOW_MASK_of(FixedOfWidth(pw), pw)

\* C21: the storage constants partition the bits: for each of the four
\* storage types HALF_BITS is exactly half the bit width and LOW_MASK is
\* 2^HALF_BITS - 1 (8/0xFF, 16/0xFFFF, 32/0xFFFF_FFFF), and for usize the
\* computed HALF_BITS and LOW_MASK are those of the fixed-width type of the
\* same size on every pointer width.  The constants of the build are examined
\* in every state; the table of all types and pointer widths, which no call
\* changes, in the state before the constructor call.
C21_StorageConstants ==
    /\ 2 * HALF_BITS = BitsOf(T)
    /\ LOW_MASK = Pow2Minus1(HALF_BITS, NBytes)
    /\ (r = NoCall => StorageConstantsTable)

\* The computed constants of usize on a 32-bit platform at work: the largest
\* start packed with them fills the upper 16 bits.
C21_Witness ==
    /\ T = "usize"
    /\ target_pointer_width = 32
    /\ HALF_BITS = 16
    /\ LOW_MASK = <<255, 255, 0, 0>>
    /\ r.by = "new"
    /\ r.s = Cap
    /\ r.e = Cap
    /\ r.res = Ok(<<1, 0, 255, 255>>)
    /\ q.op = "start"
    /\ q.res = Ok(<<254, 255, 0, 0>>)

====
